---- MODULE Spec2Model ----
(***************************************************************************)
(* State-machine model of the saddlebag-with-pockets front-end components: *)
(*   - the desktop full-scan results table (src/unnamed/part_001),         *)
(*   - the undercut-alert form (FFXIVResults/UndercutAlert/Results.tsx),   *)
(*   - MobileTable (form/select/SelectWorld/SelectDataCenter.tsx).         *)
(* Strings that the code inspects character by character are sequences of  *)
(* one-character strings.  Each component has its own specification; the   *)
(* variables of the other components stay at their initial values.         *)
(***************************************************************************)
EXTENDS Integers, Sequences, FiniteSets, TLC

VARIABLES
    \* ---- desktop full-scan table (src/unnamed/part_001) ----
    rows,             \* the rows prop
    globalFilter,     \* useState('') at line 143
    searchInput,      \* text currently in the DebouncedInput box
    debouncePending,  \* a debounced change is waiting to be delivered
    sortOrder,        \* state.user.ffScanSortOrder (column order)
    sorting,          \* the table's sorting state
    hasTouch,         \* 'ontouchstart' in window
    touchBackendRef,  \* useRef(false) at line 144
    mounted,          \* the mount effects have run
    backend,          \* backend the rendered DndProvider was given
    tableRows,        \* row ids rendered in <tbody>
    csvExport,        \* data handed to the last CSV export
    lastDispatch,     \* the handler that dispatched the last store action
    \* ---- MobileTable (SelectDataCenter.tsx:261-459) ----
    data,             \* the data prop
    sortingOrder,     \* the sortingOrder prop
    engine,           \* the JavaScript engine running Array.prototype.sort
    mtModal,          \* useState(null) at line 278: the open detail modal
    columnSort,       \* useState(sortingOrder[0]?.id) at line 281
    desc,             \* useState(sortingOrder[0].desc || true) at line 285
    columns,          \* useState(columnList) at line 287 (column ids)
    sortedData,       \* the rows rendered in <tbody>, in order
    \* ---- undercut-alert form (UndercutAlert/Results.tsx) ----
    info,             \* useState at lines 37-51
    modal,            \* useState at lines 53-56
    alertType,        \* the radio button that is checked
    isSecureContext,  \* window.isSecureContext
    alerts,           \* the alert() messages shown so far
    pendingWrites,    \* navigator.clipboard.writeText calls not yet settled
    clipboard,        \* the text on the clipboard
    \* ---- SelectDataCenter (SelectDataCenter.tsx:26-69) ----
    dataCenter,       \* the dataCenter prop
    selectValue,      \* value of the <select>: its selected option
    onSelectCalls,    \* the arguments onSelect has been called with
    \* ---- MarketShareForm (SelectDataCenter.tsx:105-211) ----
    loaderData,       \* the loaderData prop (its homeRealmId)
    realmChoice,      \* the realm last given to onServerSelectChange
    homeRealmIdChange \* value of the last handleFormChange('homeRealmId', _)

fsVars == <<rows, globalFilter, searchInput, debouncePending, sortOrder,
            sorting, hasTouch, touchBackendRef, mounted, backend, tableRows,
            csvExport, lastDispatch>>

mtVars == <<data, sortingOrder, engine, mtModal, columnSort, desc, columns,
            sortedData>>

uaVars == <<info, modal, alertType, isSecureContext, alerts, pendingWrites,
            clipboard>>

dcVars == <<dataCenter, selectValue, onSelectCalls>>

msVars == <<loaderData, realmChoice, homeRealmIdChange>>

vars == <<fsVars, mtVars, uaVars, dcVars, msVars>>

----------------------------------------------------------------------------
(* Bounds *)
MaxRows == 2
MaxData == 3
MaxIds == 1
MaxSellers == 2
MaxAlerts == 2
MaxPending == 2
MaxCalls == 3
MaxNameLen == 4
NumCols == 3

----------------------------------------------------------------------------
(* Strings as character sequences *)

ToLower(c) == IF c = "A" THEN "a" ELSE IF c = "B" THEN "b" ELSE c

toLowerCase(s) == [i \in 1..Len(s) |-> ToLower(s[i])]

RECURSIVE DigitsOf(_)
DigitsOf(n) ==
    LET d == <<"0","1","2","3","4","5","6","7","8","9">>[(n % 10) + 1]
    IN IF n < 10 THEN <<d>> ELSE DigitsOf(n \div 10) \o <<d>>

\* decimal text of an integer
IntToString(n) == IF n < 0 THEN <<"-">> \o DigitsOf(-n) ELSE DigitsOf(n)

----------------------------------------------------------------------------
(* JavaScript values: numbers, strings and undefined *)
Num(n) == [type |-> "number", nan |-> FALSE, n |-> n]
NaN == [type |-> "number", nan |-> TRUE, n |-> 0]
Str(s) == [type |-> "string", s |-> s]
UndefinedValue == [type |-> "undefined"]
typeof(v) == v.type

\* `${value}` of a number
NumberToString(v) == IF v.nan THEN <<"N", "a", "N">> ELSE IntToString(v.n)

\* !value
Falsy(v) ==
    \/ typeof(v) = "undefined"
    \/ typeof(v) = "number" /\ (v.nan \/ v.n = 0)
    \/ typeof(v) = "string" /\ v.s = <<>>

RECURSIVE IsSubsequence(_, _)
\* every character of s occurs in t, in order
IsSubsequence(s, t) ==
    IF s = <<>> THEN TRUE
    ELSE IF t = <<>> THEN FALSE
    ELSE IF Head(s) = Head(t) THEN IsSubsequence(Tail(s), Tail(t))
    ELSE IsSubsequence(s, Tail(t))

startsWith(t, s) == Len(s) <= Len(t) /\ SubSeq(t, 1, Len(s)) = s

includes(t, s) ==
    \E k \in 0..(Len(t) - Len(s)) : SubSeq(t, k + 1, k + Len(s)) = s

----------------------------------------------------------------------------
(* Desktop full-scan table: src/unnamed/part_001 *)

\* ids of the accessor columns, in declaration order
ColumnIds == <<"real_name", "profit_amount", "avg_ppu", "home_server_price",
               "home_update_time", "ppu", "profit_raw_percent", "sale_rates">>

\* the fields a modelled row carries a value for
RowFields == {"real_name", "profit_amount"}

RowPool ==
    { [real_name |-> Str(<<"A", "b">>),      profit_amount |-> Num(10)],
      [real_name |-> Str(<<"a", "0", "b">>), profit_amount |-> Num(5)] }

RowInputs == UNION { [1..n -> RowPool] : n \in 0..MaxRows }

SearchTexts == { <<>>, <<"B">>, <<"a", "b">>, <<"1">> }

\* the search text as a JavaScript value
SearchValue(text) == Str(text)

\* prepareValueForComparison: the value is turned into a string
prepareValueForComparison(value) ==
    IF typeof(value) = "number" THEN NumberToString(value) ELSE value.s

\* rankItem(...).passed of @tanstack/match-sorter-utils with the default
\* threshold: ranks NO_MATCH = 0, MATCHES = 1, CONTAINS = 3, STARTS_WITH = 5,
\* EQUAL = 6, CASE_SENSITIVE_EQUAL = 7
getMatchRanking(testValue, stringToRankValue) ==
    LET testString   == prepareValueForComparison(testValue)
        stringToRank == prepareValueForComparison(stringToRankValue)
        lt == toLowerCase(testString)
        ls == toLowerCase(stringToRank)
    IN  IF Len(stringToRank) > Len(testString) THEN 0
        ELSE IF testString = stringToRank THEN 7
        ELSE IF lt = ls THEN 6
        ELSE IF startsWith(lt, ls) THEN 5
        ELSE IF includes(lt, ls) THEN 3
        ELSE IF Len(ls) = 1 THEN 0
        ELSE IF IsSubsequence(ls, lt) THEN 1
        ELSE 0

fuzzyFilter(row, columnId, value) == getMatchRanking(row[columnId], value) >= 1

\* getFilteredRowModel with the global filter only (columnFilters stays [])
getFilteredRowModel(tableData, filter) ==
    IF Len(tableData) = 0 \/ filter = <<>>
    THEN 1..Len(tableData)
    ELSE { i \in 1..Len(tableData) :
             \E columnId \in RowFields :
                fuzzyFilter(tableData[i], columnId, SearchValue(filter)) }

defaultSorting == << [id |-> "profit_amount", desc |-> TRUE] >>

defaultSortOrder == SubSeq(ColumnIds, 1, NumCols)

Undefined == [defined |-> FALSE]
Defined(v) == [defined |-> TRUE, value |-> v]

\* getOrderedColumns(oldIndex, newIndex, order): the column at oldIndex
\* moved to newIndex; nothing when the position does not change
getOrderedColumns(oldIndex, newIndex, order) ==
    IF oldIndex = newIndex
       \/ oldIndex \notin 1..Len(order) \/ newIndex \notin 1..Len(order)
    THEN Undefined
    ELSE LET without == [k \in 1..(Len(order) - 1) |->
                            IF k < oldIndex THEN order[k] ELSE order[k + 1]]
         IN Defined([k \in 1..Len(order) |->
                        IF k < newIndex THEN without[k]
                        ELSE IF k = newIndex THEN order[oldIndex]
                        ELSE without[k - 1]])

\* dispatch(setFFScanOrder(payload)): the reducer stores the payload as the
\* column order
setFFScanOrder(payload, handler) ==
    /\ sortOrder' = payload
    /\ lastDispatch' = handler

\* what one render of Results puts on the page
Render ==
    /\ backend' = IF touchBackendRef' THEN "TouchBackend" ELSE "HTML5Backend"
    /\ tableRows' = getFilteredRowModel(rows', globalFilter')

\* MountEffects with the touch check left out
MountEffects_NoTouchCheck ==
    /\ ~mounted
    /\ mounted' = TRUE
    /\ sorting' = defaultSorting
    /\ UNCHANGED <<rows, globalFilter, searchInput, debouncePending, sortOrder,
                   hasTouch, touchBackendRef, csvExport, lastDispatch>>
    /\ Render

\* the two mount effects (lines 330-332 and 349-361) and the render that the
\* sorting update causes
MountEffects ==
    /\ ~mounted
    /\ mounted' = TRUE
    /\ sorting' = defaultSorting
    /\ touchBackendRef' = IF hasTouch THEN TRUE ELSE touchBackendRef
    /\ UNCHANGED <<rows, globalFilter, searchInput, debouncePending, sortOrder,
                   hasTouch, csvExport, lastDispatch>>
    /\ Render

\* the user edits the search box; DebouncedInput holds the value back
TypeSearch(text) ==
    /\ mounted
    /\ text # searchInput
    /\ searchInput' = text
    /\ debouncePending' = TRUE
    /\ UNCHANGED <<rows, globalFilter, sortOrder, sorting, hasTouch,
                   touchBackendRef, mounted, csvExport, lastDispatch>>
    /\ Render

\* onDebouncedChange dropping the delivered value
onDebouncedChange_DropsValue ==
    /\ mounted
    /\ debouncePending
    /\ debouncePending' = FALSE
    /\ UNCHANGED <<rows, globalFilter, searchInput, sortOrder, sorting, hasTouch,
                   touchBackendRef, mounted, csvExport, lastDispatch>>
    /\ Render

\* the debounce delay ends: onDebouncedChange (lines 416-418)
onDebouncedChange ==
    /\ mounted
    /\ debouncePending
    /\ debouncePending' = FALSE
    /\ globalFilter' = searchInput
    /\ UNCHANGED <<rows, searchInput, sortOrder, sorting, hasTouch,
                   touchBackendRef, mounted, csvExport, lastDispatch>>
    /\ Render

\* handleReorder without the early return for a missing new order
handleReorder_NoEarlyReturn(itemIndex, newIndex) ==
    /\ mounted
    /\ LET newOrder == getOrderedColumns(itemIndex, newIndex, sortOrder)
       IN IF ~newOrder.defined
          THEN setFFScanOrder(<<>>, "handleReorder")
          ELSE setFFScanOrder(newOrder.value, "handleReorder")
    /\ UNCHANGED <<rows, globalFilter, searchInput, debouncePending, sorting,
                   hasTouch, touchBackendRef, mounted, csvExport>>
    /\ Render

\* handleReorder (lines 336-347)
handleReorder(itemIndex, newIndex) ==
    /\ mounted
    /\ LET newOrder == getOrderedColumns(itemIndex, newIndex, sortOrder)
       IN IF ~newOrder.defined
          THEN UNCHANGED <<sortOrder, lastDispatch>>
          ELSE setFFScanOrder(newOrder.value, "handleReorder")
    /\ UNCHANGED <<rows, globalFilter, searchInput, debouncePending, sorting,
                   hasTouch, touchBackendRef, mounted, csvExport>>
    /\ Render

\* handleColumnReset that also puts the sort back to the default sort
handleColumnReset_ResetsSort ==
    /\ mounted
    /\ setFFScanOrder(defaultSortOrder, "handleColumnReset")
    /\ sorting' = defaultSorting
    /\ UNCHANGED <<rows, globalFilter, searchInput, debouncePending,
                   hasTouch, touchBackendRef, mounted, csvExport>>
    /\ Render

\* handleColumnReset (line 363)
handleColumnReset ==
    /\ mounted
    /\ setFFScanOrder(defaultSortOrder, "handleColumnReset")
    /\ UNCHANGED <<rows, globalFilter, searchInput, debouncePending, sorting,
                   hasTouch, touchBackendRef, mounted, csvExport>>
    /\ Render

\* the column's first sort direction: ascending for strings
getAutoSortDirDesc(columnId) ==
    LET filtered == getFilteredRowModel(rows, globalFilter)
    IN IF filtered = {} THEN TRUE
       ELSE LET first == CHOOSE i \in filtered : \A j \in filtered : i <= j
            IN typeof(rows[first][columnId]) # "string"

\* header click: header.column.getToggleSortingHandler() (line 444)
toggleSorting(columnId) ==
    /\ mounted
    /\ LET firstDesc == getAutoSortDirDesc(columnId)
           isSorted  == sorting # <<>> /\ sorting[1].id = columnId
       IN sorting' =
            IF ~isSorted THEN << [id |-> columnId, desc |-> firstDesc] >>
            ELSE IF sorting[1].desc = firstDesc
                 THEN << [id |-> columnId, desc |-> ~firstDesc] >>
                 ELSE <<>>
    /\ UNCHANGED <<rows, globalFilter, searchInput, debouncePending, sortOrder,
                   hasTouch, touchBackendRef, mounted, csvExport, lastDispatch>>
    /\ Render

\* the data prop given to the desktop CSVButton (lines 408-412)
CSVButtonData == [i \in 1..Len(rows) |-> i]

\* the CSV button is clicked: the file holds the rows of its data prop
ClickCSVButton ==
    /\ mounted
    /\ csvExport' = Defined(CSVButtonData)
    /\ UNCHANGED <<rows, globalFilter, searchInput, debouncePending, sortOrder,
                   sorting, hasTouch, touchBackendRef, mounted, lastDispatch>>
    /\ Render

----------------------------------------------------------------------------
(* MobileTable: src/app/components/form/select/SelectWorld/SelectDataCenter.tsx *)

\* columnList, rowLabels and columnSelectOptions as Results passes them
\* (src/unnamed/part_001:314-328, 271-275), cut to the modelled fields
columnList == <<"real_name", "profit_amount">>
rowLabels == {"real_name", "profit_amount", "avg_ppu"}
columnSelectOptions == <<"profit_amount", "avg_ppu">>

MobileRowPool ==
    { [real_name |-> Str(<<"a">>), profit_amount |-> Num(5),
       avg_ppu |-> Num(2)],
      [real_name |-> Str(<<"b">>), profit_amount |-> Num(3),
       avg_ppu |-> Num(1)],
      [real_name |-> Str(<<"c">>), profit_amount |-> Num(0),
       avg_ppu |-> Num(3)],
      [real_name |-> Str(<<"d">>), profit_amount |-> UndefinedValue,
       avg_ppu |-> Num(1)],
      [real_name |-> Str(<<"e">>), profit_amount |-> Str(<<"x">>),
       avg_ppu |-> Num(4)] }

DataInputs == UNION { [1..n -> MobileRowPool] : n \in 0..MaxData }

Engines == {"V8", "SpiderMonkey"}

Null == [type |-> "null"]

\* comparator with the check of bValue replaced by a default of 0
compare_DefaultsB(a, b, sortingColumn, descending) ==
    LET aValue == a[sortingColumn]
        bValue == b[sortingColumn]
        bNum   == IF Falsy(bValue) \/ typeof(bValue) # "number" THEN 0
                  ELSE bValue.n
    IN  IF Falsy(aValue) \/ typeof(aValue) # "number" THEN 0
        ELSE IF descending THEN bNum - aValue.n ELSE aValue.n - bNum

\* the comparator given to sort (lines 294-306)
compare(a, b, sortingColumn, descending) ==
    LET aValue == a[sortingColumn]
        bValue == b[sortingColumn]
    IN  IF Falsy(aValue) \/ typeof(aValue) # "number" THEN 0
        ELSE IF Falsy(bValue) \/ typeof(bValue) # "number" THEN 0
        ELSE IF descending THEN bValue.n - aValue.n ELSE aValue.n - bValue.n

\* arr with the element at index from moved down to index to (to <= from)
MoveDown(arr, from, to) ==
    [k \in 1..Len(arr) |->
        IF k < to \/ k > from THEN arr[k]
        ELSE IF k = to THEN arr[from]
        ELSE arr[k - 1]]

RECURSIVE InsertionPoint(_, _, _, _, _)
\* SpiderMonkey InsertionSort, inner loop: the item at index i moves down
\* past every neighbour that compares greater
InsertionPoint(arr, i, j, col, d) ==
    IF j < 1 THEN 1
    ELSE IF compare(arr[j], arr[i], col, d) <= 0 THEN j + 1
    ELSE InsertionPoint(arr, i, j - 1, col, d)

RECURSIVE InsertionSort(_, _, _, _)
InsertionSort(arr, i, col, d) ==
    IF i > Len(arr) THEN arr
    ELSE InsertionSort(
            MoveDown(arr, i, InsertionPoint(arr, i, i - 1, col, d)),
            i + 1, col, d)

RECURSIVE RunLength(_, _, _, _, _)
\* V8 CountAndMakeRun, the loop: idx is the next index to look at
RunLength(arr, idx, isDescending, col, d) ==
    IF idx > Len(arr) THEN idx - 1
    ELSE LET order == compare(arr[idx], arr[idx - 1], col, d)
         IN IF (isDescending /\ order >= 0) \/ (~isDescending /\ order < 0)
            THEN idx - 1
            ELSE RunLength(arr, idx + 1, isDescending, col, d)

ReverseRange(arr, n) ==
    [k \in 1..Len(arr) |-> IF k <= n THEN arr[n + 1 - k] ELSE arr[k]]

RECURSIVE BinarySearch(_, _, _, _, _, _)
\* V8 BinaryInsertionSort, the search for the pivot's place in [left, right)
BinarySearch(arr, pivot, left, right, col, d) ==
    IF left >= right THEN left
    ELSE LET mid == left + ((right - left) \div 2)
         IN IF compare(pivot, arr[mid], col, d) < 0
            THEN BinarySearch(arr, pivot, left, mid, col, d)
            ELSE BinarySearch(arr, pivot, mid + 1, right, col, d)

RECURSIVE BinaryInsertionSort(_, _, _, _)
BinaryInsertionSort(arr, start, col, d) ==
    IF start > Len(arr) THEN arr
    ELSE BinaryInsertionSort(
            MoveDown(arr, start,
                     BinarySearch(arr, arr[start], 1, start, col, d)),
            start + 1, col, d)

\* V8 ArrayTimSort on fewer than 64 elements: one run is counted (and
\* reversed when strictly descending), the rest is inserted by binary search
TimSort(arr, col, d) ==
    IF Len(arr) < 2 THEN arr
    ELSE LET isDescending == compare(arr[2], arr[1], col, d) < 0
             run  == RunLength(arr, 3, isDescending, col, d)
             made == IF isDescending THEN ReverseRange(arr, run) ELSE arr
         IN BinaryInsertionSort(made, run + 1, col, d)

\* Array.prototype.sort on a copy of the array
sort(arr, col, d) ==
    IF engine = "V8" THEN TimSort(arr, col, d) ELSE InsertionSort(arr, 2, col, d)

\* render that sorts the data prop itself instead of a copy of it
MtRender_SortsInPlace ==
    /\ data' = IF columnSort' # ""
               THEN sort(data, columnSort', desc')
               ELSE data
    /\ sortedData' = data'

\* sortedData (lines 290-307), rendered in <tbody>: the copy made by
\* data.map((self) => self) is sorted, the data prop is only read
MtRender ==
    LET copy == [k \in 1..Len(data) |-> data[k]]
    IN /\ data' = data
       /\ sortedData' = IF columnSort' # ""
                        THEN sort(copy, columnSort', desc')
                        ELSE data

\* header click that selects the descending direction and closes the modal
thOnClick_ResetsView ==
    /\ \E k \in 1..Len(columns) : columns[k] = columnSort
    /\ desc' = TRUE
    /\ mtModal' = Null
    /\ UNCHANGED <<sortingOrder, engine, columnSort, columns>>
    /\ MtRender

\* click on the header of the sort column (lines 364-368)
thOnClick ==
    /\ \E k \in 1..Len(columns) : columns[k] = columnSort
    /\ desc' = ~desc
    /\ UNCHANGED <<sortingOrder, engine, mtModal, columnSort, columns>>
    /\ MtRender

\* 'Table sort by' select onChange (lines 329-346)
selectOnChange(value) ==
    /\ value # columnSort
    /\ LET NotSortColumn(col) == col # columnSort
           filteredColumns == SelectSeq(columns, NotSortColumn)
       IN /\ columnSort' = value
          /\ columns' = IF value \in rowLabels
                        THEN Append(filteredColumns, value)
                        ELSE columns
    /\ UNCHANGED <<sortingOrder, engine, mtModal, desc>>
    /\ MtRender

\* row click that opens the modal on the row of the data prop at the index
\* clicked instead of the row displayed there
trOnClick_PicksFromProp(rowIndex) ==
    /\ mtModal' = [type |-> "modal", data |-> data[rowIndex]]
    /\ UNCHANGED <<sortingOrder, engine, columnSort, desc, columns>>
    /\ MtRender

\* click on a table row (lines 399-401)
trOnClick(rowIndex) ==
    /\ mtModal' = [type |-> "modal", data |-> sortedData[rowIndex]]
    /\ UNCHANGED <<sortingOrder, engine, columnSort, desc, columns>>
    /\ MtRender

\* Modal onClose (line 429)
mtModalOnClose ==
    /\ mtModal # Null
    /\ mtModal' = Null
    /\ UNCHANGED <<sortingOrder, engine, columnSort, desc, columns>>
    /\ MtRender

----------------------------------------------------------------------------
(* Undercut-alert form: src/app/components/FFXIVResults/UndercutAlert/Results.tsx *)

MAX_HOURS == 24 * 30

\* the props
sellerId == <<"a">>
homeServer == <<"S">>

\* what the user can enter: names typed into the retainer box, items picked
\* in ItemSelect, texts of the two number inputs
RetainerNames == { <<"b", "\"">> }
ItemIds == { <<"4">> }
NumberInputTexts == { <<>>, <<"1", "2">>, <<"-", "3">>,
                      <<"1", "0", "0", "0", "0">> }

Digits == <<"0", "1", "2", "3", "4", "5", "6", "7", "8", "9">>
IsDigit(c) == \E k \in 1..10 : Digits[k] = c
DigitValue(c) == (CHOOSE k \in 1..10 : Digits[k] = c) - 1

RECURSIVE StripLeadingWhitespace(_)
StripLeadingWhitespace(str) ==
    IF str # <<>> /\ Head(str) = " " THEN StripLeadingWhitespace(Tail(str))
    ELSE str

RECURSIVE LeadingDigits(_)
LeadingDigits(str) ==
    IF str # <<>> /\ IsDigit(Head(str))
    THEN <<Head(str)>> \o LeadingDigits(Tail(str))
    ELSE <<>>

RECURSIVE DigitsToInt(_)
DigitsToInt(ds) ==
    IF ds = <<>> THEN 0
    ELSE DigitsToInt(SubSeq(ds, 1, Len(ds) - 1)) * 10 + DigitValue(ds[Len(ds)])

\* parseInt(str, 10)
parseInt(str) ==
    LET s1 == StripLeadingWhitespace(str)
        signed == s1 # <<>> /\ Head(s1) \in {"-", "+"}
        negative == s1 # <<>> /\ Head(s1) = "-"
        ds == LeadingDigits(IF signed THEN Tail(s1) ELSE s1)
    IN IF ds = <<>> THEN NaN
       ELSE Num(IF negative THEN -DigitsToInt(ds) ELSE DigitsToInt(ds))

\* Math.min
MathMin(a, b) ==
    IF a.nan \/ b.nan THEN NaN ELSE IF a.n <= b.n THEN a ELSE b

RECURSIVE join(_, _)
\* Array.prototype.join
join(list, sep) ==
    IF list = <<>> THEN <<>>
    ELSE IF Len(list) = 1 THEN list[1]
    ELSE list[1] \o sep \o join(Tail(list), sep)

Quoted(id) == <<"\"">> \o id \o <<"\"">>

BooleanToString(b) ==
    IF b THEN <<"t", "r", "u", "e">> ELSE <<"f", "a", "l", "s", "e">>

\* jsonData (lines 57-65): the text the template puts after each key
jsonDataOf(state) ==
    [retainer_names |->
        <<"[">> \o join([k \in 1..Len(state.sellerIds) |->
                            Quoted(state.sellerIds[k])], <<",">>) \o <<"]">>,
     server     |-> Quoted(homeServer),
     add_ids    |-> <<"[">> \o join(state.addIds, <<",">>) \o <<"]">>,
     ignore_ids |-> <<"[">> \o join(state.removeIds, <<",">>) \o <<"]">>,
     hq_only    |-> BooleanToString(state.hqOnly),
     ignore_data_after_hours |-> NumberToString(state.ignoreDataAfterHours),
     ignore_undercuts_with_quantity_over |->
        NumberToString(state.ignoreStackSize)]

jsonData == jsonDataOf(info)

\* salesAlertJson (lines 66-70)
salesAlertJson ==
    [retainer_names |->
        <<"[">> \o join([k \in 1..Len(info.sellerIds) |->
                            Quoted(info.sellerIds[k])], <<",">>) \o <<"]">>,
     server   |-> Quoted(homeServer),
     item_ids |-> <<"[", "]">>]

isAddModal == modal.form = "addIds"
isSellerModal == modal.form = "sellerIds"

\* title of the Modal (lines 228-234)
modalTitle ==
    IF isAddModal THEN "Include Items"
    ELSE IF isSellerModal THEN "Add Retainers"
    ELSE "Ignore Items"

\* the disabled prop of both copy buttons (lines 183, 209)
copyDisabled == isAddModal /\ Len(info.addIds) = 0

\* radio change that keeps the items selected so far
radioOnChange_KeepsItems(value) ==
    /\ value # alertType
    /\ alertType' = value
    /\ IF value # "addIds" /\ value # "removeIds"
       THEN UNCHANGED <<modal, info>>
       ELSE /\ modal' = [form |-> value, open |-> FALSE]
            /\ info' = [info EXCEPT
                          !.removeIds = IF value = "addIds"
                                        THEN << <<"-", "1">> >> ELSE <<>>]
    /\ UNCHANGED <<isSecureContext, alerts, pendingWrites, clipboard>>

\* RadioButtons onChange (lines 90-98)
radioOnChange(value) ==
    /\ value # alertType
    /\ alertType' = value
    /\ IF value # "addIds" /\ value # "removeIds"
       THEN UNCHANGED <<modal, info>>
       ELSE /\ modal' = [form |-> value, open |-> FALSE]
            /\ info' = [info EXCEPT
                          !.addIds = <<>>,
                          !.removeIds = IF value = "addIds"
                                        THEN << <<"-", "1">> >> ELSE <<>>]
    /\ UNCHANGED <<isSecureContext, alerts, pendingWrites, clipboard>>

\* 'Choose filters' button (lines 107-109)
chooseFiltersOnClick ==
    /\ modal' = [modal EXCEPT !.open = TRUE]
    /\ UNCHANGED <<info, alertType, isSecureContext, alerts, pendingWrites,
                   clipboard>>

\* 'Add all Retainers' button (lines 118-120)
addAllRetainersOnClick ==
    /\ modal' = [form |-> "sellerIds", open |-> TRUE]
    /\ UNCHANGED <<info, alertType, isSecureContext, alerts, pendingWrites,
                   clipboard>>

\* 'High Quality Only' checkbox (lines 131-133)
hqOnlyOnChange ==
    /\ info' = [info EXCEPT !.hqOnly = ~info.hqOnly]
    /\ UNCHANGED <<modal, alertType, isSecureContext, alerts, pendingWrites,
                   clipboard>>

\* hours input onChange (lines 146-154)
hoursOnChange(targetValue) ==
    /\ info' = [info EXCEPT !.ignoreDataAfterHours =
                  MathMin(parseInt(targetValue), Num(MAX_HOURS))]
    /\ UNCHANGED <<modal, alertType, isSecureContext, alerts, pendingWrites,
                   clipboard>>

\* stack-size input onChange (lines 167-172)
stackSizeOnChange(targetValue) ==
    /\ info' = [info EXCEPT !.ignoreStackSize = parseInt(targetValue)]
    /\ UNCHANGED <<modal, alertType, isSecureContext, alerts, pendingWrites,
                   clipboard>>

\* copy click that goes on to write after the 'Unable to copy.' alert
copyOnClick_NoReturn(kind, text) ==
    /\ ~copyDisabled
    /\ Len(alerts) < MaxAlerts
    /\ Len(pendingWrites) < MaxPending
    /\ alerts' = IF ~isSecureContext THEN Append(alerts, "Unable to copy.")
                 ELSE alerts
    /\ pendingWrites' = Append(pendingWrites, [kind |-> kind, text |-> text])
    /\ UNCHANGED <<info, modal, alertType, isSecureContext, clipboard>>

\* copy click without the await: the alert is shown as soon as the write has
\* been started
copyOnClick_AlertsAtOnce(kind, text) ==
    /\ ~copyDisabled
    /\ Len(alerts) < MaxAlerts
    /\ Len(pendingWrites) < MaxPending
    /\ IF ~isSecureContext
       THEN /\ alerts' = Append(alerts, "Unable to copy.")
            /\ UNCHANGED pendingWrites
       ELSE /\ pendingWrites' =
                  Append(pendingWrites, [kind |-> kind, text |-> text])
            /\ alerts' = Append(alerts, "Copied to clipboard!")
    /\ UNCHANGED <<info, modal, alertType, isSecureContext, clipboard>>

\* 'Copy to clipboard' onClick up to the await (lines 184-196, 210-222)
copyOnClick(kind, text) ==
    /\ ~copyDisabled
    /\ Len(alerts) < MaxAlerts
    /\ Len(pendingWrites) < MaxPending
    /\ IF ~isSecureContext
       THEN /\ alerts' = Append(alerts, "Unable to copy.")
            /\ UNCHANGED pendingWrites
       ELSE /\ pendingWrites' =
                  Append(pendingWrites, [kind |-> kind, text |-> text])
            /\ UNCHANGED alerts
    /\ UNCHANGED <<info, modal, alertType, isSecureContext, clipboard>>

RemoveAt(s, k) == SubSeq(s, 1, k - 1) \o SubSeq(s, k + 1, Len(s))

\* a write that takes the text from the form when it settles instead of the
\* text it was given when it was started
writeTextResolves_ReadsFormLate(k) ==
    /\ Len(alerts) < MaxAlerts
    /\ clipboard' = Defined([kind |-> pendingWrites[k].kind,
                             text |-> IF pendingWrites[k].kind = "undercut"
                                      THEN jsonData ELSE salesAlertJson])
    /\ alerts' = Append(alerts, "Copied to clipboard!")
    /\ pendingWrites' = RemoveAt(pendingWrites, k)
    /\ UNCHANGED <<info, modal, alertType, isSecureContext>>

\* the awaited writeText settles with success: the handler goes on
\* (lines 193-194, 219-220)
writeTextResolves(k) ==
    /\ Len(alerts) < MaxAlerts
    /\ clipboard' = Defined(pendingWrites[k])
    /\ alerts' = Append(alerts, "Copied to clipboard!")
    /\ pendingWrites' = RemoveAt(pendingWrites, k)
    /\ UNCHANGED <<info, modal, alertType, isSecureContext>>

\* the awaited writeText is rejected: the handler ends there
writeTextRejects(k) ==
    /\ pendingWrites' = RemoveAt(pendingWrites, k)
    /\ UNCHANGED <<info, modal, alertType, isSecureContext, alerts, clipboard>>

\* Modal onClose (lines 235-237)
modalOnClose ==
    /\ modal.open
    /\ modal' = [modal EXCEPT !.open = FALSE]
    /\ UNCHANGED <<info, alertType, isSecureContext, alerts, pendingWrites,
                   clipboard>>

\* retainer box onKeyDown with Enter (lines 252-263)
sellerOnKeyDown(currentTargetValue) ==
    /\ modal.open /\ isSellerModal
    /\ Len(info.sellerIds) < MaxSellers
    /\ IF currentTargetValue # <<>>
       THEN info' = [info EXCEPT
                       !.sellerIds = Append(info.sellerIds, currentTargetValue)]
       ELSE UNCHANGED info
    /\ UNCHANGED <<modal, alertType, isSecureContext, alerts, pendingWrites,
                   clipboard>>

\* retainer Delete button (lines 274-281)
sellerDeleteOnClick(index) ==
    /\ modal.open /\ isSellerModal
    /\ LET id == info.sellerIds[index]
           Keep(item) == item # id
       IN info' = [info EXCEPT !.sellerIds = SelectSeq(info.sellerIds, Keep)]
    /\ UNCHANGED <<modal, alertType, isSecureContext, alerts, pendingWrites,
                   clipboard>>

\* ItemSelect onSelectChange (lines 293-301)
onSelectChange(selected) ==
    /\ modal.open /\ ~isSellerModal
    /\ Len(info[modal.form]) < MaxIds
    /\ IF ~selected.defined
       THEN UNCHANGED info
       ELSE info' = [info EXCEPT
                       ![modal.form] = Append(info[modal.form], selected.value)]
    /\ UNCHANGED <<modal, alertType, isSecureContext, alerts, pendingWrites,
                   clipboard>>

\* item Delete button (lines 319-326)
itemDeleteOnClick(index) ==
    /\ modal.open /\ ~isSellerModal
    /\ LET id == info[modal.form][index]
           Keep(item) == item # id
       IN info' = [info EXCEPT
                     ![modal.form] = SelectSeq(info[modal.form], Keep)]
    /\ UNCHANGED <<modal, alertType, isSecureContext, alerts, pendingWrites,
                   clipboard>>

----------------------------------------------------------------------------
(* SelectDataCenter: src/app/components/form/select/SelectWorld/SelectDataCenter.tsx *)

\* locations.Regions and locations.DataCentersOfRegion: two regions with two
\* data centers each
Regions == << [region_id |-> <<"N", "A">>, name |-> <<"U", "S">>],
              [region_id |-> <<"E", "U">>, name |-> <<"E", "u">>] >>

DataCentersOfRegion(region_id) ==
    IF region_id = <<"N", "A">>
    THEN << [name |-> <<"A", "e">>], [name |-> <<"P", "r">>] >>
    ELSE << [name |-> <<"C", "h">>], [name |-> <<"L", "i">>] >>

\* 'Select your Data Center'
SelectYourDataCenter ==
    <<"S", "e", "l", "e", "c", "t", " ", "y", "o", "u", "r", " ",
      "D", "a", "t", "a", " ", "C", "e", "n", "t", "e", "r">>

\* `${value[1][1]} Data Centers`
regionHeader(name) ==
    name \o <<" ", "D", "a", "t", "a", " ", "C", "e", "n", "t", "e", "r", "s">>

\* the values the dataCenter prop is given: none, the empty string, a name
DataCenterInputs ==
    {UndefinedValue, Str(<<>>)}
       \cup { Str(DataCentersOfRegion(Regions[r].region_id)[k].name) :
                 r \in 1..Len(Regions), k \in 1..2 }

\* dataCenterDefaultValue (lines 32-34)
dataCenterDefaultValue(dc) ==
    IF ~Falsy(dc) THEN dc.s ELSE SelectYourDataCenter

\* the options of one region with its header left selectable
regionOptions_HeaderEnabled(region) ==
    << [text |-> regionHeader(region.name), disabled |-> FALSE,
        hidden |-> FALSE] >>
       \o [k \in 1..Len(DataCentersOfRegion(region.region_id)) |->
             [text |-> DataCentersOfRegion(region.region_id)[k].name,
              disabled |-> FALSE, hidden |-> FALSE]]

\* the <option>s rendered for one region (lines 55-66): a disabled header,
\* then one option per data center
regionOptions(region) ==
    << [text |-> regionHeader(region.name), disabled |-> TRUE,
        hidden |-> FALSE] >>
       \o [k \in 1..Len(DataCentersOfRegion(region.region_id)) |->
             [text |-> DataCentersOfRegion(region.region_id)[k].name,
              disabled |-> FALSE, hidden |-> FALSE]]

RECURSIVE Flatten(_)
Flatten(lists) ==
    IF lists = <<>> THEN <<>> ELSE Head(lists) \o Flatten(Tail(lists))

\* the children of <select> (lines 50-66)
selectOptions(dc) ==
    (IF Falsy(dc)
     THEN << [text |-> dataCenterDefaultValue(dc), disabled |-> TRUE,
              hidden |-> TRUE] >>
     ELSE <<>>)
       \o Flatten([r \in 1..Len(Regions) |-> regionOptions(Regions[r])])

\* the user picks option k of the list: the browser lets only an enabled
\* option be picked and fires change only when the selection changes; the
\* handler (lines 47-49) passes the option's value to onSelect, and the
\* parent may or may not pass it back as the dataCenter prop
dataCenterOnChange(k) ==
    LET option == selectOptions(dataCenter)[k]
    IN /\ ~option.disabled
       /\ option.text # selectValue
       /\ Len(onSelectCalls) < MaxCalls
       /\ selectValue' = option.text
       /\ onSelectCalls' = Append(onSelectCalls, option.text)
       /\ dataCenter' \in {dataCenter, Str(option.text)}

----------------------------------------------------------------------------
(* MarketShareForm: src/app/components/form/select/SelectWorld/SelectDataCenter.tsx *)

\* '---'
RealmSeparator == <<"-", "-", "-">>

\* the realms RegionAndServerSelect can hand over: WoWServerData records
RealmIds == {-3, 0, 7, 12}
RealmNames ==
    UNION { [1..n -> {"a", "-"}] : n \in 0..MaxNameLen }
RealmInputs ==
    { Defined([id |-> Num(i), name |-> Str(n)]) : i \in RealmIds,
                                                  n \in RealmNames }
       \cup {Undefined}

\* index of the first occurrence of sep in str at or after from, 0 if none
indexOf(str, sep, from) ==
    LET hits == { i \in from..(Len(str) - Len(sep) + 1) :
                     SubSeq(str, i, i + Len(sep) - 1) = sep }
    IN IF hits = {} THEN 0
       ELSE CHOOSE i \in hits : \A j \in hits : i <= j

RECURSIVE split(_, _)
\* String.prototype.split with a non-empty string separator
split(str, sep) ==
    LET at == indexOf(str, sep, 1)
    IN IF at = 0 THEN <<str>>
       ELSE <<SubSeq(str, 1, at - 1)>>
               \o split(SubSeq(str, at + Len(sep), Len(str)), sep)

\* defaultRealm read with '-' as the separator
defaultRealm_SplitsOnDash ==
    LET parts == split(loaderData.homeRealmId, <<"-">>)
    IN [id   |-> parseInt(parts[1]),
        name |-> IF Len(parts) >= 2 THEN Str(parts[2]) ELSE UndefinedValue]

\* the defaultRealm prop given to RegionAndServerSelect (lines 144-149)
defaultRealm ==
    LET parts == split(loaderData.homeRealmId, RealmSeparator)
    IN [id   |-> parseInt(parts[1]),
        name |-> IF Len(parts) >= 2 THEN Str(parts[2]) ELSE UndefinedValue]

\* onServerSelectChange (lines 152-157)
onServerSelectChange(realm) ==
    /\ realmChoice' = realm
    /\ homeRealmIdChange' =
          Defined(IF realm.defined
                  THEN NumberToString(realm.value.id) \o RealmSeparator
                          \o realm.value.name.s
                  ELSE <<>>)
    /\ UNCHANGED loaderData

\* the parent renders the form again with the value it was last told
passBackHomeRealmId ==
    /\ homeRealmIdChange.defined
    /\ loaderData.homeRealmId # homeRealmIdChange.value
    /\ loaderData' = [homeRealmId |-> homeRealmIdChange.value]
    /\ UNCHANGED <<realmChoice, homeRealmIdChange>>

----------------------------------------------------------------------------
(* Specifications: one per component; the other components do not move *)

FullScanNext ==
    \/ MountEffects /\ UNCHANGED <<mtVars, uaVars, dcVars, msVars>>
    \/ \E text \in SearchTexts : TypeSearch(text) /\ UNCHANGED <<mtVars, uaVars, dcVars, msVars>>
    \/ onDebouncedChange /\ UNCHANGED <<mtVars, uaVars, dcVars, msVars>>
    \/ \E i \in 1..NumCols, j \in 1..NumCols :
          handleReorder(i, j) /\ UNCHANGED <<mtVars, uaVars, dcVars, msVars>>
    \/ handleColumnReset /\ UNCHANGED <<mtVars, uaVars, dcVars, msVars>>
    \/ \E columnId \in RowFields :
          toggleSorting(columnId) /\ UNCHANGED <<mtVars, uaVars, dcVars, msVars>>
    \/ ClickCSVButton /\ UNCHANGED <<mtVars, uaVars, dcVars, msVars>>

\* Results after its first render
FullScanInit ==
    /\ rows \in RowInputs
    /\ globalFilter = <<>>
    /\ searchInput = <<>>
    /\ debouncePending = FALSE
    /\ sortOrder = defaultSortOrder
    /\ sorting = <<>>
    /\ hasTouch \in BOOLEAN
    /\ touchBackendRef = FALSE
    /\ mounted = FALSE
    /\ backend = "HTML5Backend"
    /\ tableRows = getFilteredRowModel(rows, <<>>)
    /\ csvExport = Undefined
    /\ lastDispatch = "none"
    \* MobileTable is not followed
    /\ data = <<>>
    /\ sortingOrder = defaultSorting
    /\ engine = "V8"
    /\ mtModal = Null
    /\ columnSort = "profit_amount"
    /\ desc = TRUE
    /\ columns = columnList
    /\ sortedData = <<>>
    \* the undercut-alert form is not followed
    /\ info = [addIds |-> <<>>, removeIds |-> <<>>, sellerIds |-> <<sellerId>>,
               hqOnly |-> FALSE, ignoreDataAfterHours |-> Num(MAX_HOURS),
               ignoreStackSize |-> Num(9999)]
    /\ modal = [form |-> "removeIds", open |-> FALSE]
    /\ alertType = "removeIds"
    /\ isSecureContext = FALSE
    /\ alerts = <<>>
    /\ pendingWrites = <<>>
    /\ clipboard = Undefined
    \* SelectDataCenter is not followed
    /\ dataCenter = UndefinedValue
    /\ selectValue = SelectYourDataCenter
    /\ onSelectCalls = <<>>
    \* MarketShareForm is not followed
    /\ loaderData = [homeRealmId |-> <<>>]
    /\ realmChoice = Undefined
    /\ homeRealmIdChange = Undefined

SpecFullScan == FullScanInit /\ [][FullScanNext]_vars

MobileTableNext ==
    \/ thOnClick /\ UNCHANGED <<fsVars, uaVars, dcVars, msVars>>
    \/ \E k \in 1..Len(columnSelectOptions) :
          /\ columnSelectOptions[k] \in rowLabels
          /\ selectOnChange(columnSelectOptions[k])
          /\ UNCHANGED <<fsVars, uaVars, dcVars, msVars>>
    \/ \E rowIndex \in 1..Len(sortedData) :
          trOnClick(rowIndex) /\ UNCHANGED <<fsVars, uaVars, dcVars, msVars>>
    \/ mtModalOnClose /\ UNCHANGED <<fsVars, uaVars, dcVars, msVars>>

\* MobileTable after its first render
MobileTableInit ==
    /\ data \in DataInputs
    /\ sortingOrder \in { << [id |-> "profit_amount", desc |-> b] >> :
                            b \in BOOLEAN }
    /\ engine \in Engines
    /\ mtModal = Null
    /\ columnSort = sortingOrder[1].id
    /\ desc = (sortingOrder[1].desc \/ TRUE)
    /\ columns = columnList
    /\ sortedData = sort(data, columnSort, desc)
    \* the full-scan table is not followed
    /\ rows = <<>>
    /\ globalFilter = <<>>
    /\ searchInput = <<>>
    /\ debouncePending = FALSE
    /\ sortOrder = defaultSortOrder
    /\ sorting = <<>>
    /\ hasTouch = FALSE
    /\ touchBackendRef = FALSE
    /\ mounted = FALSE
    /\ backend = "HTML5Backend"
    /\ tableRows = {}
    /\ csvExport = Undefined
    /\ lastDispatch = "none"
    \* the undercut-alert form is not followed
    /\ info = [addIds |-> <<>>, removeIds |-> <<>>, sellerIds |-> <<sellerId>>,
               hqOnly |-> FALSE, ignoreDataAfterHours |-> Num(MAX_HOURS),
               ignoreStackSize |-> Num(9999)]
    /\ modal = [form |-> "removeIds", open |-> FALSE]
    /\ alertType = "removeIds"
    /\ isSecureContext = FALSE
    /\ alerts = <<>>
    /\ pendingWrites = <<>>
    /\ clipboard = Undefined
    \* SelectDataCenter is not followed
    /\ dataCenter = UndefinedValue
    /\ selectValue = SelectYourDataCenter
    /\ onSelectCalls = <<>>
    \* MarketShareForm is not followed
    /\ loaderData = [homeRealmId |-> <<>>]
    /\ realmChoice = Undefined
    /\ homeRealmIdChange = Undefined

SpecMobileTable == MobileTableInit /\ [][MobileTableNext]_vars

\* the form served in a non-secure context
UndercutNext ==
    \/ \E value \in {"addIds", "removeIds"} :
          radioOnChange(value) /\ UNCHANGED <<fsVars, mtVars, dcVars, msVars>>
    \/ chooseFiltersOnClick /\ UNCHANGED <<fsVars, mtVars, dcVars, msVars>>
    \/ addAllRetainersOnClick /\ UNCHANGED <<fsVars, mtVars, dcVars, msVars>>
    \/ hqOnlyOnChange /\ UNCHANGED <<fsVars, mtVars, dcVars, msVars>>
    \/ \E text \in NumberInputTexts :
          hoursOnChange(text) /\ UNCHANGED <<fsVars, mtVars, dcVars, msVars>>
    \/ \E text \in NumberInputTexts :
          stackSizeOnChange(text) /\ UNCHANGED <<fsVars, mtVars, dcVars, msVars>>
    \/ copyOnClick("undercut", jsonData) /\ UNCHANGED <<fsVars, mtVars, dcVars, msVars>>
    \/ copyOnClick("sales", salesAlertJson) /\ UNCHANGED <<fsVars, mtVars, dcVars, msVars>>
    \/ modalOnClose /\ UNCHANGED <<fsVars, mtVars, dcVars, msVars>>
    \/ \E name \in RetainerNames \cup {<<>>} :
          sellerOnKeyDown(name) /\ UNCHANGED <<fsVars, mtVars, dcVars, msVars>>
    \/ \E index \in 1..Len(info.sellerIds) :
          sellerDeleteOnClick(index) /\ UNCHANGED <<fsVars, mtVars, dcVars, msVars>>
    \/ \E selected \in {Defined(id) : id \in ItemIds} \cup {Undefined} :
          onSelectChange(selected) /\ UNCHANGED <<fsVars, mtVars, dcVars, msVars>>
    \/ \E index \in 1..Len(info[modal.form]) :
          itemDeleteOnClick(index) /\ UNCHANGED <<fsVars, mtVars, dcVars, msVars>>

\* the undercut-alert form after its first render, in a non-secure context
UndercutInit ==
    /\ info = [addIds |-> <<>>, removeIds |-> <<>>, sellerIds |-> <<sellerId>>,
               hqOnly |-> FALSE, ignoreDataAfterHours |-> Num(MAX_HOURS),
               ignoreStackSize |-> Num(9999)]
    /\ modal = [form |-> "removeIds", open |-> FALSE]
    /\ alertType = "removeIds"
    /\ isSecureContext = FALSE
    /\ alerts = <<>>
    /\ pendingWrites = <<>>
    /\ clipboard = Undefined
    \* the full-scan table is not followed
    /\ rows = <<>>
    /\ globalFilter = <<>>
    /\ searchInput = <<>>
    /\ debouncePending = FALSE
    /\ sortOrder = defaultSortOrder
    /\ sorting = <<>>
    /\ hasTouch = FALSE
    /\ touchBackendRef = FALSE
    /\ mounted = FALSE
    /\ backend = "HTML5Backend"
    /\ tableRows = {}
    /\ csvExport = Undefined
    /\ lastDispatch = "none"
    \* MobileTable is not followed
    /\ data = <<>>
    /\ sortingOrder = defaultSorting
    /\ engine = "V8"
    /\ mtModal = Null
    /\ columnSort = "profit_amount"
    /\ desc = TRUE
    /\ columns = columnList
    /\ sortedData = <<>>
    \* SelectDataCenter is not followed
    /\ dataCenter = UndefinedValue
    /\ selectValue = SelectYourDataCenter
    /\ onSelectCalls = <<>>
    \* MarketShareForm is not followed
    /\ loaderData = [homeRealmId |-> <<>>]
    /\ realmChoice = Undefined
    /\ homeRealmIdChange = Undefined

SpecUndercut == UndercutInit /\ [][UndercutNext]_vars

\* the texts typed into the hours input while clipboard writes are followed
ClipboardInputTexts == { <<>>, <<"1", "2">> }

\* the copy buttons in either context, with the clipboard writes in flight
\* and a few edits of the form between them
ClipboardNext ==
    \/ copyOnClick("undercut", jsonData) /\ UNCHANGED <<fsVars, mtVars, dcVars, msVars>>
    \/ copyOnClick("sales", salesAlertJson) /\ UNCHANGED <<fsVars, mtVars, dcVars, msVars>>
    \/ \E k \in 1..Len(pendingWrites) :
          writeTextResolves(k) /\ UNCHANGED <<fsVars, mtVars, dcVars, msVars>>
    \/ \E k \in 1..Len(pendingWrites) :
          writeTextRejects(k) /\ UNCHANGED <<fsVars, mtVars, dcVars, msVars>>
    \/ hqOnlyOnChange /\ UNCHANGED <<fsVars, mtVars, dcVars, msVars>>
    \/ \E text \in ClipboardInputTexts :
          hoursOnChange(text) /\ UNCHANGED <<fsVars, mtVars, dcVars, msVars>>
    \/ chooseFiltersOnClick /\ UNCHANGED <<fsVars, mtVars, dcVars, msVars>>
    \/ modalOnClose /\ UNCHANGED <<fsVars, mtVars, dcVars, msVars>>

\* the undercut-alert form after its first render, in either context
ClipboardInit ==
    /\ info = [addIds |-> <<>>, removeIds |-> <<>>, sellerIds |-> <<sellerId>>,
               hqOnly |-> FALSE, ignoreDataAfterHours |-> Num(MAX_HOURS),
               ignoreStackSize |-> Num(9999)]
    /\ modal = [form |-> "removeIds", open |-> FALSE]
    /\ alertType = "removeIds"
    /\ isSecureContext \in BOOLEAN
    /\ alerts = <<>>
    /\ pendingWrites = <<>>
    /\ clipboard = Undefined
    \* the full-scan table is not followed
    /\ rows = <<>>
    /\ globalFilter = <<>>
    /\ searchInput = <<>>
    /\ debouncePending = FALSE
    /\ sortOrder = defaultSortOrder
    /\ sorting = <<>>
    /\ hasTouch = FALSE
    /\ touchBackendRef = FALSE
    /\ mounted = FALSE
    /\ backend = "HTML5Backend"
    /\ tableRows = {}
    /\ csvExport = Undefined
    /\ lastDispatch = "none"
    \* MobileTable is not followed
    /\ data = <<>>
    /\ sortingOrder = defaultSorting
    /\ engine = "V8"
    /\ mtModal = Null
    /\ columnSort = "profit_amount"
    /\ desc = TRUE
    /\ columns = columnList
    /\ sortedData = <<>>
    \* SelectDataCenter is not followed
    /\ dataCenter = UndefinedValue
    /\ selectValue = SelectYourDataCenter
    /\ onSelectCalls = <<>>
    \* MarketShareForm is not followed
    /\ loaderData = [homeRealmId |-> <<>>]
    /\ realmChoice = Undefined
    /\ homeRealmIdChange = Undefined

SpecClipboard == ClipboardInit /\ [][ClipboardNext]_vars

DataCenterNext ==
    \E k \in 1..Len(selectOptions(dataCenter)) :
        dataCenterOnChange(k) /\ UNCHANGED <<fsVars, mtVars, uaVars, msVars>>

\* SelectDataCenter after its first render
DataCenterInit ==
    /\ dataCenter \in DataCenterInputs
    /\ selectValue = dataCenterDefaultValue(dataCenter)
    /\ onSelectCalls = <<>>
    \* the full-scan table is not followed
    /\ rows = <<>>
    /\ globalFilter = <<>>
    /\ searchInput = <<>>
    /\ debouncePending = FALSE
    /\ sortOrder = defaultSortOrder
    /\ sorting = <<>>
    /\ hasTouch = FALSE
    /\ touchBackendRef = FALSE
    /\ mounted = FALSE
    /\ backend = "HTML5Backend"
    /\ tableRows = {}
    /\ csvExport = Undefined
    /\ lastDispatch = "none"
    \* MobileTable is not followed
    /\ data = <<>>
    /\ sortingOrder = defaultSorting
    /\ engine = "V8"
    /\ mtModal = Null
    /\ columnSort = "profit_amount"
    /\ desc = TRUE
    /\ columns = columnList
    /\ sortedData = <<>>
    \* the undercut-alert form is not followed
    /\ info = [addIds |-> <<>>, removeIds |-> <<>>, sellerIds |-> <<sellerId>>,
               hqOnly |-> FALSE, ignoreDataAfterHours |-> Num(MAX_HOURS),
               ignoreStackSize |-> Num(9999)]
    /\ modal = [form |-> "removeIds", open |-> FALSE]
    /\ alertType = "removeIds"
    /\ isSecureContext = FALSE
    /\ alerts = <<>>
    /\ pendingWrites = <<>>
    /\ clipboard = Undefined
    \* MarketShareForm is not followed
    /\ loaderData = [homeRealmId |-> <<>>]
    /\ realmChoice = Undefined
    /\ homeRealmIdChange = Undefined

SpecDataCenter == DataCenterInit /\ [][DataCenterNext]_vars

MarketShareNext ==
    \/ \E realm \in RealmInputs :
          /\ onServerSelectChange(realm)
          /\ UNCHANGED <<fsVars, mtVars, uaVars, dcVars>>
    \/ passBackHomeRealmId /\ UNCHANGED <<fsVars, mtVars, uaVars, dcVars>>

\* MarketShareForm after its first render: no realm or realm 7 'a' preset
MarketShareInit ==
    /\ loaderData \in { [homeRealmId |-> <<>>],
                        [homeRealmId |-> <<"7", "-", "-", "-", "a">>] }
    /\ realmChoice = Undefined
    /\ homeRealmIdChange = Undefined
    \* the full-scan table is not followed
    /\ rows = <<>>
    /\ globalFilter = <<>>
    /\ searchInput = <<>>
    /\ debouncePending = FALSE
    /\ sortOrder = defaultSortOrder
    /\ sorting = <<>>
    /\ hasTouch = FALSE
    /\ touchBackendRef = FALSE
    /\ mounted = FALSE
    /\ backend = "HTML5Backend"
    /\ tableRows = {}
    /\ csvExport = Undefined
    /\ lastDispatch = "none"
    \* MobileTable is not followed
    /\ data = <<>>
    /\ sortingOrder = defaultSorting
    /\ engine = "V8"
    /\ mtModal = Null
    /\ columnSort = "profit_amount"
    /\ desc = TRUE
    /\ columns = columnList
    /\ sortedData = <<>>
    \* the undercut-alert form is not followed
    /\ info = [addIds |-> <<>>, removeIds |-> <<>>, sellerIds |-> <<sellerId>>,
               hqOnly |-> FALSE, ignoreDataAfterHours |-> Num(MAX_HOURS),
               ignoreStackSize |-> Num(9999)]
    /\ modal = [form |-> "removeIds", open |-> FALSE]
    /\ alertType = "removeIds"
    /\ isSecureContext = FALSE
    /\ alerts = <<>>
    /\ pendingWrites = <<>>
    /\ clipboard = Undefined
    \* SelectDataCenter is not followed
    /\ dataCenter = UndefinedValue
    /\ selectValue = SelectYourDataCenter
    /\ onSelectCalls = <<>>

SpecMarketShare == MarketShareInit /\ [][MarketShareNext]_vars

----------------------------------------------------------------------------
(* Claims about the desktop full-scan table *)

Range(f) == { f[i] : i \in DOMAIN f }

IsPermutation(s, t) ==
    /\ Len(s) = Len(t)
    /\ \A x \in Range(s) \cup Range(t) :
          Cardinality({ i \in 1..Len(s) : s[i] = x }) =
          Cardinality({ i \in 1..Len(t) : t[i] = x })

\* C1: the CSV export holds exactly the rows displayed in the table at the
\* moment of the export, so rows hidden by the search filter are left out.
C1_CsvHoldsDisplayedRows ==
    [][ClickCSVButton => Range(csvExport'.value) = tableRows]_vars

\* a row matches a text when some field, written as a string and lowercased,
\* holds the characters of the lowercased text in order
FuzzyMatches(row, text) ==
    \E columnId \in RowFields :
        IsSubsequence(toLowerCase(text),
                      toLowerCase(prepareValueForComparison(row[columnId])))

\* C5: the rows displayed are input rows, and are exactly the rows that pass
\* the fuzzy filter for the search text once the debounce has delivered it;
\* with an empty search text every input row is displayed.
C5_DisplayedRowsAreFuzzyMatches ==
    /\ tableRows \subseteq 1..Len(rows)
    /\ ~debouncePending =>
          tableRows = { i \in 1..Len(rows) : FuzzyMatches(rows[i], searchInput) }
    /\ tableRows = { i \in 1..Len(rows) :
                       \E columnId \in RowFields :
                          fuzzyFilter(rows[i], columnId, SearchValue(globalFilter)) }
    /\ globalFilter = <<>> => tableRows = 1..Len(rows)

\* a search text that hides a row has been delivered
C5_Witness ==
    /\ ~debouncePending
    /\ searchInput = <<"1">>
    /\ Len(rows) = 2
    /\ tableRows = {1}

\* C6: 'Reset table columns' sets the column order to the default order,
\* a second click changes nothing on the page, and the reset leaves the
\* search filter and the current sort unchanged.
C6_ResetRestoresDefaultOrder ==
    [][handleColumnReset =>
         /\ sortOrder' = defaultSortOrder
         /\ globalFilter' = globalFilter /\ searchInput' = searchInput
         /\ debouncePending' = debouncePending
         /\ sorting' = sorting
         /\ tableRows' = tableRows
         /\ (lastDispatch = "handleColumnReset" =>
                UNCHANGED <<rows, globalFilter, searchInput, debouncePending,
                            sortOrder, sorting, backend, tableRows>>)]_vars

\* the reset was clicked with a search filter and a sort chosen by the user
C6_Witness ==
    /\ lastDispatch = "handleColumnReset"
    /\ sortOrder = defaultSortOrder
    /\ globalFilter = <<"1">>
    /\ sorting = << [id |-> "real_name", desc |-> FALSE] >>

\* C7: a drag keeps the stored column order a permutation of the order
\* before it, and a drag for which the reorder helper yields no new order
\* leaves the stored order alone and dispatches nothing.
C7_DragPermutesColumns ==
    [][\A i \in 1..NumCols, j \in 1..NumCols :
         handleReorder(i, j) =>
            /\ IsPermutation(sortOrder', sortOrder)
            /\ IsPermutation(sortOrder', defaultSortOrder)
            /\ (~getOrderedColumns(i, j, sortOrder).defined =>
                  UNCHANGED <<sortOrder, lastDispatch>>)
            /\ (getOrderedColumns(i, j, sortOrder).defined =>
                  /\ sortOrder'[j] = sortOrder[i]
                  /\ lastDispatch' = "handleReorder")]_vars

\* a drag has moved the first column to the last position
C7_Witness ==
    /\ lastDispatch = "handleReorder"
    /\ sortOrder # defaultSortOrder
    /\ sortOrder[NumCols] = defaultSortOrder[1]

\* C8 as stated: the provider's backend is the touch backend on a touch
\* device and the HTML5 backend elsewhere, in every render.
C8_BackendFollowsDevice ==
    backend = IF hasTouch THEN "TouchBackend" ELSE "HTML5Backend"

\* C8 amended: once the mount effect has run and the table has rendered
\* again the backend follows the device; the first render uses the HTML5
\* backend on every device.
C8_BackendFollowsDeviceAfterMount ==
    /\ mounted => backend = IF hasTouch THEN "TouchBackend" ELSE "HTML5Backend"
    /\ ~mounted => backend = "HTML5Backend"

C8_Witness == mounted /\ hasTouch /\ backend = "TouchBackend"

----------------------------------------------------------------------------
(* Claims about the undercut-alert form *)

\* JSON number without fraction or exponent: -?(0|[1-9][0-9]*)
IsJsonInteger(text) ==
    LET body == IF text # <<>> /\ Head(text) = "-" THEN Tail(text) ELSE text
    IN /\ body # <<>>
       /\ \A k \in 1..Len(body) : IsDigit(body[k])
       /\ Len(body) > 1 => body[1] # "0"

\* JSON string whose characters need no escape
IsJsonString(text) ==
    /\ Len(text) >= 2
    /\ text[1] = "\"" /\ text[Len(text)] = "\""
    /\ \A k \in 2..(Len(text) - 1) : text[k] \notin {"\"", "\\"}

RECURSIVE SplitOnComma(_)
SplitOnComma(text) ==
    IF \A k \in 1..Len(text) : text[k] # "," THEN <<text>>
    ELSE LET at == CHOOSE k \in 1..Len(text) :
                      text[k] = "," /\ \A m \in 1..(k - 1) : text[m] # ","
         IN <<SubSeq(text, 1, at - 1)>>
               \o SplitOnComma(SubSeq(text, at + 1, Len(text)))

\* JSON array whose elements all satisfy IsElement
IsJsonArrayOf(text, IsElement(_)) ==
    /\ Len(text) >= 2
    /\ text[1] = "[" /\ text[Len(text)] = "]"
    /\ LET inner == SubSeq(text, 2, Len(text) - 1)
           parts == SplitOnComma(inner)
       IN inner = <<>> \/ \A k \in 1..Len(parts) : IsElement(parts[k])

\* C2: the generated undercut-alert text is a well-formed JSON object: both
\* numeric fields are integer literals, every list is a JSON array, the
\* server is a JSON string and hq_only a JSON boolean.
C2_JsonWellFormed ==
    /\ IsJsonInteger(jsonData.ignore_data_after_hours)
    /\ IsJsonInteger(jsonData.ignore_undercuts_with_quantity_over)
    /\ IsJsonArrayOf(jsonData.retainer_names, IsJsonString)
    /\ IsJsonArrayOf(jsonData.add_ids, IsJsonInteger)
    /\ IsJsonArrayOf(jsonData.ignore_ids, IsJsonInteger)
    /\ IsJsonString(jsonData.server)
    /\ jsonData.hq_only \in {BooleanToString(TRUE), BooleanToString(FALSE)}

\* C3: a copy click in a non-secure context appends the alert
\* 'Unable to copy.', starts no clipboard write, leaves the clipboard and
\* the form state alone, and 'Copied to clipboard!' is never shown there.
C3_NonSecureCopyOnlyAlerts ==
    [][~isSecureContext =>
         /\ (copyOnClick("undercut", jsonData)
               \/ copyOnClick("sales", salesAlertJson)) =>
               /\ alerts' = Append(alerts, "Unable to copy.")
               /\ UNCHANGED <<pendingWrites, clipboard, info, modal,
                              alertType>>
         /\ pendingWrites' = <<>>
         /\ ~clipboard'.defined
         /\ \A k \in 1..Len(alerts') : alerts'[k] # "Copied to clipboard!"]_vars

\* a copy button was clicked in a non-secure context on an edited form
C3_Witness ==
    /\ ~isSecureContext
    /\ alerts = <<"Unable to copy.">>
    /\ info.hqOnly
    /\ info.ignoreDataAfterHours = Num(12)

----------------------------------------------------------------------------
(* Claims about MobileTable *)

\* C4: a click on the header of the sort column flips the direction, so a
\* second click restores it, and changes neither the sort column, the
\* columns nor the modal; the header stays there to be clicked again.
C4_HeaderClickFlipsDirection ==
    [][thOnClick =>
         /\ desc' = ~desc
         /\ UNCHANGED <<columnSort, columns, mtModal>>
         /\ \E k \in 1..Len(columns') : columns'[k] = columnSort']_vars

\* the direction has been flipped to ascending while a modal is open
C4_Witness ==
    /\ desc = FALSE
    /\ mtModal # Null
    /\ columnSort = "avg_ppu"

IsNumber(value) == typeof(value) = "number" /\ ~value.nan

\* C9: when every row has a number in the sort column, the displayed rows
\* are in non-increasing order of it when descending and in non-decreasing
\* order when ascending.
C9_NumericColumnIsSorted ==
    (\A i \in 1..Len(data) : IsNumber(data[i][columnSort])) =>
        \A i \in 1..(Len(sortedData) - 1) :
            IF desc
            THEN sortedData[i][columnSort].n >= sortedData[i + 1][columnSort].n
            ELSE sortedData[i][columnSort].n <= sortedData[i + 1][columnSort].n

\* C10: comparing two rows of which one has no number in the sort column
\* yields 0, and when every pair of rows is such a pair the rows are
\* displayed in the order they were given.
C10_MissingValueComparesEqual ==
    /\ \A i \in 1..Len(data), j \in 1..Len(data) :
          (~IsNumber(data[i][columnSort]) \/ ~IsNumber(data[j][columnSort]))
             => compare(data[i], data[j], columnSort, desc) = 0
    /\ (\A i \in 1..Len(data), j \in 1..Len(data) :
           i < j => (~IsNumber(data[i][columnSort])
                       \/ ~IsNumber(data[j][columnSort])))
          => sortedData = data

\* ascending sort of a row with a number followed by a row without one
C10_Witness ==
    /\ Len(data) = 2
    /\ columnSort = "profit_amount" /\ ~desc
    /\ data[1].profit_amount = Num(5)
    /\ data[2].profit_amount = UndefinedValue
    /\ sortedData = data

\* C11: no step of MobileTable changes the data prop, and the rows displayed
\* are always a permutation of the data prop.
C11_DataPropIsNeverMutated ==
    /\ []IsPermutation(sortedData, data)
    /\ [][data' = data]_vars

\* sorting has displayed the rows in another order than the prop holds them
C11_Witness ==
    /\ Len(data) = 3
    /\ sortedData # data
    /\ ~desc
    /\ columnSort = "avg_ppu"
    /\ mtModal # Null

\* C12: on its first render MobileTable sorts by the column and in the
\* direction of the first entry of the sortingOrder prop (a statement about
\* the initial state only; later clicks are free to change both).
C12_InitialSortFollowsProp ==
    /\ columnSort = sortingOrder[1].id
    /\ desc = sortingOrder[1].desc
    /\ [][TRUE]_vars

\* the rows are in the order of the numbers in column col, in direction d
IsOrderedBy(rowSeq, col, d) ==
    \A i \in 1..(Len(rowSeq) - 1) :
        IF d THEN rowSeq[i][col].n >= rowSeq[i + 1][col].n
        ELSE rowSeq[i][col].n <= rowSeq[i + 1][col].n

\* the part of C13 about what the selection leaves alone
SelectionFrame ==
    \A k \in 1..Len(columnSelectOptions) :
        selectOnChange(columnSelectOptions[k]) =>
            /\ columnSort' = columnSelectOptions[k]
            /\ desc' = desc
            /\ mtModal' = mtModal

\* C13: choosing an option of 'Table sort by' makes it the sort column,
\* leaves direction and modal unchanged, and the rows displayed next are in
\* the order of that column when every row has a number in it.
C13_SelectionSortsByOption ==
    [][/\ SelectionFrame
       /\ \A k \in 1..Len(columnSelectOptions) :
             (/\ selectOnChange(columnSelectOptions[k])
              /\ \A i \in 1..Len(data) :
                    IsNumber(data[i][columnSelectOptions[k]]))
                => IsOrderedBy(sortedData', columnSelectOptions[k], desc')]_vars

\* C14: a row click opens the modal on exactly the row displayed at the
\* place clicked; header clicks and sort-column selections leave the modal
\* as it is; closing sets the modal to null and changes neither the sort
\* column, the direction nor the columns; an open modal always holds one
\* row of the data prop.
C14_ModalHoldsClickedRow ==
    /\ [](mtModal # Null => mtModal.data \in Range(data))
    /\ [][/\ \A rowIndex \in 1..Len(sortedData) :
               trOnClick(rowIndex) =>
                   mtModal' = [type |-> "modal", data |-> sortedData[rowIndex]]
          /\ (thOnClick \/ \E k \in 1..Len(columnSelectOptions) :
                               selectOnChange(columnSelectOptions[k]))
                => mtModal' = mtModal
          /\ mtModalOnClose =>
                /\ mtModal' = Null
                /\ UNCHANGED <<columnSort, desc, columns>>]_vars

\* the modal was opened on a row and the table was re-sorted afterwards, so
\* that the row now stands at another place
C14_Witness ==
    /\ mtModal # Null
    /\ Len(data) = 3
    /\ mtModal.data = sortedData[3]
    /\ mtModal.data = data[1]
    /\ columnSort = "avg_ppu" /\ ~desc

----------------------------------------------------------------------------
(* Claims about the clipboard writes of the undercut-alert form *)

CopiedAlerts(shown) ==
    Cardinality({ k \in 1..Len(shown) : shown[k] = "Copied to clipboard!" })

\* C15: 'Copied to clipboard!' is shown only by a step in which a pending
\* clipboard write resolves: a copy click and a rejected write show no
\* alert in a secure context, and once the alert has been shown the
\* clipboard holds a written text.
C15_CopiedOnlyAfterWriteResolves ==
    /\ [](CopiedAlerts(alerts) > 0 => clipboard.defined)
    /\ [][/\ CopiedAlerts(alerts') > CopiedAlerts(alerts) =>
                /\ \E k \in 1..Len(pendingWrites) :
                      /\ clipboard' = Defined(pendingWrites[k])
                      /\ pendingWrites' = RemoveAt(pendingWrites, k)
                /\ CopiedAlerts(alerts') = CopiedAlerts(alerts) + 1
          /\ (\E k \in 1..Len(pendingWrites) : writeTextRejects(k)) =>
                alerts' = alerts /\ clipboard' = clipboard
          /\ (isSecureContext /\ Len(pendingWrites') > Len(pendingWrites)) =>
                alerts' = alerts]_vars

\* one write has resolved and been announced, a second one is still pending
\* and has not been announced
C15_Witness ==
    /\ isSecureContext
    /\ alerts = <<"Copied to clipboard!">>
    /\ clipboard.defined
    /\ Len(pendingWrites) = 1

\* the text shown in the <code> block of the given kind
DisplayedText(kind) == IF kind = "undercut" THEN jsonData ELSE salesAlertJson

\* C16: a copy click starts a write of exactly the text displayed at the
\* click; no later step changes the text of a pending write; the clipboard
\* changes only when a pending write settles, and then to the text that
\* write was started with, whatever the form shows by then.
C16_ClipboardGetsTextOfTheClick ==
    [][/\ Len(pendingWrites') > Len(pendingWrites) =>
             /\ SubSeq(pendingWrites', 1, Len(pendingWrites)) = pendingWrites
             /\ Len(pendingWrites') = Len(pendingWrites) + 1
             /\ LET started == pendingWrites'[Len(pendingWrites')]
                IN started.text = DisplayedText(started.kind)
             /\ clipboard' = clipboard
       /\ Len(pendingWrites') = Len(pendingWrites) =>
             pendingWrites' = pendingWrites /\ clipboard' = clipboard
       /\ Len(pendingWrites') < Len(pendingWrites) =>
             \E k \in 1..Len(pendingWrites) :
                /\ pendingWrites' = RemoveAt(pendingWrites, k)
                /\ clipboard' \in {clipboard, Defined(pendingWrites[k])}]_vars

\* two writes of the same kind are pending with different texts: the form
\* was edited between the two clicks, the first write kept its text and the
\* second has the text now displayed
C16_Witness ==
    /\ Len(pendingWrites) = 2
    /\ pendingWrites[1].kind = "undercut"
    /\ pendingWrites[2].kind = "undercut"
    /\ pendingWrites[1].text # pendingWrites[2].text
    /\ pendingWrites[2].text = jsonData

----------------------------------------------------------------------------
(* Claims about SelectDataCenter *)

DataCenterNames ==
    { DataCentersOfRegion(Regions[r].region_id)[k].name :
         r \in 1..Len(Regions), k \in 1..2 }

\* C17: the list holds the hidden, disabled option 'Select your Data
\* Center' exactly when the dataCenter prop names no data center, and every
\* argument onSelect was called with is the name of a data center: never
\* the placeholder text, never the header of a region.
C17_OnSelectGetsDataCenterNames ==
    /\ (\E k \in 1..Len(selectOptions(dataCenter)) :
           /\ selectOptions(dataCenter)[k].text = SelectYourDataCenter
           /\ selectOptions(dataCenter)[k].disabled
           /\ selectOptions(dataCenter)[k].hidden)
          <=> (dataCenter \notin { Str(name) : name \in DataCenterNames })
    /\ \A c \in 1..Len(onSelectCalls) :
          /\ onSelectCalls[c] \in DataCenterNames
          /\ onSelectCalls[c] # SelectYourDataCenter
          /\ \A r \in 1..Len(Regions) :
                onSelectCalls[c] # regionHeader(Regions[r].name)

\* with no data center preselected the user has picked one and then
\* another; the placeholder is still in the list
C17_Witness ==
    /\ dataCenter = UndefinedValue
    /\ Len(onSelectCalls) = 2
    /\ selectValue = onSelectCalls[2]
    /\ selectOptions(dataCenter)[1].hidden

----------------------------------------------------------------------------
(* Claims about MarketShareForm *)

\* C18: a chosen realm is reported as '<id>---<name>' and a cleared realm as
\* the empty string; when the reported string of a realm whose name does
\* not contain '---' is passed in again as loaderData.homeRealmId, the
\* default realm decoded from it has the same id and the same name.
C18_HomeRealmRoundTrips ==
    /\ (homeRealmIdChange.defined /\ ~realmChoice.defined) =>
          homeRealmIdChange.value = <<>>
    /\ realmChoice.defined =>
          /\ homeRealmIdChange.defined
          /\ homeRealmIdChange.value =
                IntToString(realmChoice.value.id.n) \o <<"-", "-", "-">>
                   \o realmChoice.value.name.s
          /\ (/\ indexOf(realmChoice.value.name.s, <<"-", "-", "-">>, 1) = 0
              /\ loaderData.homeRealmId = homeRealmIdChange.value)
                => /\ defaultRealm.id = realmChoice.value.id
                   /\ defaultRealm.name = realmChoice.value.name

\* realm -3 named '--a' was chosen, reported and passed in again
C18_Witness ==
    /\ realmChoice = Defined([id |-> Num(-3), name |-> Str(<<"-", "-", "a">>)])
    /\ loaderData.homeRealmId = homeRealmIdChange.value
    /\ defaultRealm.name = Str(<<"-", "-", "a">>)

----------------------------------------------------------------------------
(* Claims about the modal of the undercut-alert form *)

\* C19: while the radio button 'Selected items' is checked and no item has
\* been selected, both copy buttons are disabled.
C19_CopyDisabledWithoutSelectedItems ==
    (alertType = "addIds" /\ info.addIds = <<>>) => copyDisabled

\* C20: a click on 'Choose filters' opens the modal of the alert type whose
\* radio button is checked: 'Include Items' for 'Selected items', 'Ignore
\* Items' for 'All items'.
C20_ChooseFiltersOpensItemModal ==
    [][chooseFiltersOnClick =>
         /\ modal'.open
         /\ modal'.form = alertType
         /\ modalTitle' = IF alertType = "addIds" THEN "Include Items"
                          ELSE "Ignore Items"]_vars

----------------------------------------------------------------------------
(* Claims about the fields of the undercut-alert form *)

\* C21: in every state add_ids is empty or ignore_ids is exactly [-1]; a
\* change of the alert type empties add_ids, sets ignore_ids to [-1] for
\* 'Selected items' and to [] for 'All items', closes the modal and leaves
\* retainers, hq_only, hours and stack size as they were.
C21_ItemListsFitOneAlertType ==
    /\ [](info.addIds = <<>> \/ info.removeIds = << <<"-", "1">> >>)
    /\ [][\A value \in {"addIds", "removeIds"} :
             radioOnChange(value) =>
                /\ info'.addIds = <<>>
                /\ info'.removeIds = IF value = "addIds"
                                     THEN << <<"-", "1">> >> ELSE <<>>
                /\ jsonDataOf(info').add_ids = <<"[", "]">>
                /\ jsonDataOf(info').ignore_ids =
                      IF value = "addIds" THEN <<"[", "-", "1", "]">>
                      ELSE <<"[", "]">>
                /\ ~modal'.open /\ modal'.form = value
                /\ info'.sellerIds = info.sellerIds
                /\ info'.hqOnly = info.hqOnly
                /\ info'.ignoreDataAfterHours = info.ignoreDataAfterHours
                /\ info'.ignoreStackSize = info.ignoreStackSize]_vars

\* 'Selected items' is chosen, an item has been selected, and retainers and
\* hq_only have been edited
C21_Witness ==
    /\ alertType = "addIds"
    /\ Len(info.addIds) = 1
    /\ info.removeIds = << <<"-", "1">> >>
    /\ info.hqOnly
    /\ Len(info.sellerIds) = 2

\* C22: ignore_data_after_hours is always a number from 1 to MAX_HOURS and
\* ignore_undercuts_with_quantity_over always a number from 1 to 9999.
C22_NumericFieldsStayInRange ==
    /\ IsNumber(info.ignoreDataAfterHours)
    /\ info.ignoreDataAfterHours.n \in 1..MAX_HOURS
    /\ IsNumber(info.ignoreStackSize)
    /\ info.ignoreStackSize.n \in 1..9999

====
